---- MODULE Spec2Model ----
(***************************************************************************)
(* container-trust-plugin: the authorization hook trustPlugin.AuthZReq     *)
(* (plugin.go) as a state machine.                                         *)
(*                                                                         *)
(* Go strings are sequences of one-character strings, so that the regular  *)
(* expression, the percent-decoding, the reference grammar and the         *)
(* hostname test are computed on the characters as the code computes them. *)
(* The collaborators (engine client, policy evaluation, manifest) answer   *)
(* nondeterministically.                                                   *)
(***************************************************************************)
EXTENDS Integers, Sequences, FiniteSets, TLC

(***************************************************************************)
(* Strings                                                                 *)
(***************************************************************************)
\* F at the value of v, which is computed once
Bind(v, F(_)) == CHOOSE y \in {F(w) : w \in {v}} : TRUE

Min(S) == CHOOSE x \in S : \A y \in S : x <= y

Max(S) == CHOOSE x \in S : \A y \in S : x >= y

\* strings.Index for a one-character needle, searching from position i; 0 when absent
IndexFrom(s, c, i) ==
    LET S == {j \in i..Len(s) : s[j] = c}
    IN  IF S = {} THEN 0 ELSE Min(S)

IndexOf(s, c) == IndexFrom(s, c, 1)

LastIndexOf(s, c) ==
    LET S == {j \in 1..Len(s) : s[j] = c}
    IN  IF S = {} THEN 0 ELSE Max(S)

\* strings.Contains for a one-character needle
Contains(s, c) == \E j \in 1..Len(s) : s[j] = c

HasPrefixAt(s, p, i) ==
    /\ i + Len(p) - 1 <= Len(s)
    /\ \A k \in 1..Len(p) : s[i + k - 1] = p[k]

HasPrefix(s, p) == HasPrefixAt(s, p, 1)

From(s, i) == SubSeq(s, i, Len(s))

\* strings.Split on a one-character separator
RECURSIVE SplitBy(_, _)
SplitBy(s, c) ==
    LET i == IndexOf(s, c)
    IN  IF i = 0 THEN <<s>>
        ELSE <<SubSeq(s, 1, i - 1)>> \o SplitBy(From(s, i + 1), c)

RECURSIVE Rep(_, _)
Rep(c, n) == IF n = 0 THEN <<>> ELSE <<c>> \o Rep(c, n - 1)

Digit == {"0", "1", "2", "3", "4", "5", "6", "7", "8", "9"}

Lower == {"a", "b", "c", "d", "e", "f", "g", "h", "i", "j", "k", "l", "m",
          "n", "o", "p", "q", "r", "s", "t", "u", "v", "w", "x", "y", "z"}

Upper == {"A", "B", "C", "D", "E", "F", "G", "H", "I", "J", "K", "L", "M",
          "N", "O", "P", "Q", "R", "S", "T", "U", "V", "W", "X", "Y", "Z"}

HexDigit == Digit \cup {"a", "b", "c", "d", "e", "f", "A", "B", "C", "D", "E", "F"}

S_ImagesCreate == <<"/", "i", "m", "a", "g", "e", "s", "/", "c", "r", "e", "a", "t", "e">>

S_FromImage == <<"?", "f", "r", "o", "m", "I", "m", "a", "g", "e", "=">>

S_AmpTag == <<"&", "t", "a", "g", "=">>

S_latest == <<"l", "a", "t", "e", "s", "t">>

S_docker_io == <<"d", "o", "c", "k", "e", "r", ".", "i", "o">>

S_index_docker_io == <<"i", "n", "d", "e", "x", ".", "d", "o", "c", "k", "e", "r", ".", "i", "o">>

S_localhost == <<"l", "o", "c", "a", "l", "h", "o", "s", "t">>

S_library == <<"l", "i", "b", "r", "a", "r", "y", "/">>

S_sha256 == <<"s", "h", "a", "2", "5", "6">>

S_sha384 == <<"s", "h", "a", "3", "8", "4">>

S_sha512 == <<"s", "h", "a", "5", "1", "2">>

(***************************************************************************)
(* url.QueryUnescape (plugin.go:93)                                        *)
(***************************************************************************)
unhex(c) ==
    CASE c = "0" -> 0 [] c = "1" -> 1 [] c = "2" -> 2 [] c = "3" -> 3
      [] c = "4" -> 4 [] c = "5" -> 5 [] c = "6" -> 6 [] c = "7" -> 7
      [] c = "8" -> 8 [] c = "9" -> 9
      [] c \in {"a", "A"} -> 10 [] c \in {"b", "B"} -> 11
      [] c \in {"c", "C"} -> 12 [] c \in {"d", "D"} -> 13
      [] c \in {"e", "E"} -> 14 [] c \in {"f", "F"} -> 15

\* the byte with the given code; bytes outside the table are one opaque byte
ByteChar(n) ==
    CASE n = 10 -> "\n" [] n = 37 -> "%" [] n = 38 -> "&" [] n = 43 -> "+"
      [] n = 47 -> "/"  [] n = 58 -> ":" [] n = 61 -> "=" [] n = 63 -> "?"
      [] n = 64 -> "@"  [] n = 102 -> "f"
      [] OTHER -> "<byte>"

\* the first pass of unescape: every '%' is followed by two hex digits
EscapesValid(s) ==
    \A i \in 1..Len(s) :
        s[i] = "%" => /\ i + 2 <= Len(s)
                      /\ s[i + 1] \in HexDigit
                      /\ s[i + 2] \in HexDigit

\* the second pass of unescape: "%XX" becomes one byte, "+" a space.  The
\* k-th byte of the result comes from position k plus two for every escape
\* before it.
unescape(s) ==
    LET P         == {p \in 1..Len(s) : s[p] = "%"}
        OutIdx(p) == p - 2 * Cardinality({q \in P : q < p})
        Src(k)    == k + 2 * Cardinality({p \in P : OutIdx(p) < k})
        n         == Len(s) - 2 * Cardinality(P)
        out       == [k \in 1..n |->
                        LET i == Src(k)
                        IN  IF s[i] = "%" THEN ByteChar(16 * unhex(s[i + 1]) + unhex(s[i + 2]))
                            ELSE IF s[i] = "+" THEN " "
                            ELSE s[i]]
    IN  SubSeq(out, 1, n)

\* [ok, value]: ok is FALSE for an EscapeError
QueryUnescape(s) ==
    IF EscapesValid(s) THEN [ok |-> TRUE, value |-> unescape(s)]
    ELSE [ok |-> FALSE, value |-> <<>>]

(***************************************************************************)
(* pullRegExp (plugin.go:83): the literal "/images/create", then          *)
(* optionally group 1 = "?fromImage=" group 2 = [any characters but '&']   *)
(* and optionally group 3 = "&tag=" group 4 = [any characters but          *)
(* newline], then the end of the text.  Unanchored on the left.            *)
(***************************************************************************)
NoSubmatch == <<>>

\* the four groups when the text after "/images/create" matches the rest of
\* the pattern up to the end of the text, NoSubmatch otherwise
pullRegExpTail(r) ==
    IF r = <<>> THEN << <<>>, <<>>, <<>>, <<>> >>
    ELSE IF ~HasPrefix(r, S_FromImage) THEN NoSubmatch
    ELSE LET t == From(r, Len(S_FromImage) + 1)
             a == IndexOf(t, "&")
         IN  IF a = 0 THEN <<r, t, <<>>, <<>> >>
             ELSE LET u == From(t, a)
                      v == From(u, Len(S_AmpTag) + 1)
                  IN  IF HasPrefix(u, S_AmpTag) /\ ~Contains(v, "\n")
                      THEN <<r, SubSeq(t, 1, a - 1), u, v>>
                      ELSE NoSubmatch

\* the positions where a match of pullRegExp starts
pullRegExpStarts(s) ==
    {i \in 1..Len(s) :
        /\ HasPrefixAt(s, S_ImagesCreate, i)
        /\ pullRegExpTail(From(s, i + Len(S_ImagesCreate))) # NoSubmatch}

pullRegExp_MatchString(s) == pullRegExpStarts(s) # {}

\* res[1] is the whole match, res[2..5] the four groups (res[0..4] in Go);
\* the empty sequence is Go's nil
pullRegExp_FindStringSubmatch(s) ==
    IF pullRegExpStarts(s) = {} THEN NoSubmatch
    ELSE LET i == Min(pullRegExpStarts(s))
         IN  <<From(s, i)>> \o pullRegExpTail(From(s, i + Len(S_ImagesCreate)))

(***************************************************************************)
(* Messages: a format string and its arguments, as fmt.Sprintf and         *)
(* err.Error() produce them.  The empty message is Go's "".                *)
(***************************************************************************)
Msg(f, a) == [fmt |-> f, args |-> a]

NoMsg == Msg("", <<>>)

(***************************************************************************)
(* Reference grammar of github.com/docker/distribution/reference and       *)
(* digest, and the wrappers of github.com/docker/docker/reference, as      *)
(* plugin.go calls them.  A reference is [name, tag, digest]; an absent    *)
(* tag or digest is the empty string.                                      *)
(***************************************************************************)
Alnum == Lower \cup Upper \cup Digit

LowerAlnum == Lower \cup Digit

Separator == {".", "_", "-"}

\* name-component: lowercase alphanumeric runs joined by ".", "_", "__" or dashes
IsNameComponent(c) ==
    /\ Len(c) > 0
    /\ \A i \in 1..Len(c) : c[i] \in LowerAlnum \cup Separator
    /\ c[1] \in LowerAlnum
    /\ c[Len(c)] \in LowerAlnum
    /\ \A i \in 1..(Len(c) - 1) :
          (c[i] \in Separator /\ c[i + 1] \in Separator) =>
              /\ c[i] = c[i + 1]
              /\ c[i] # "."
              /\ c[i] = "_" => c[i + 2] # "_"

IsHostnameComponent(c) ==
    /\ Len(c) > 0
    /\ \A i \in 1..Len(c) : c[i] \in Alnum \cup {"-"}
    /\ c[1] \in Alnum
    /\ c[Len(c)] \in Alnum

\* hostname: components joined by ".", optionally followed by ":" and a port number
IsHostname(h) ==
    Bind(IndexOf(h, ":"), LAMBDA colon :
        LET host == IF colon = 0 THEN h ELSE SubSeq(h, 1, colon - 1)
            port == IF colon = 0 THEN <<>> ELSE From(h, colon + 1)
        IN  /\ colon # 0 => (Len(port) > 0 /\ \A i \in 1..Len(port) : port[i] \in Digit)
            /\ Bind(SplitBy(host, "."), LAMBDA comps :
                   \A k \in 1..Len(comps) : IsHostnameComponent(comps[k])))

\* NameRegexp, anchored, with NameTotalLengthMax
IsName(name) ==
    Bind(SplitBy(name, "/"), LAMBDA comps :
        /\ Len(name) > 0
        /\ Len(name) <= 255
        /\ \A k \in 2..Len(comps) : IsNameComponent(comps[k])
        /\ \/ IsNameComponent(comps[1])
           \/ Len(comps) > 1 /\ IsHostname(comps[1]))

\* TagRegexp, anchored
IsTag(t) ==
    /\ Len(t) \in 1..128
    /\ t[1] \in Alnum \cup {"_"}
    /\ \A i \in 2..Len(t) : t[i] \in Alnum \cup {"_", ".", "-"}

\* the number of hex digits of a digest of the algorithm, 0 when unsupported
DigestHexLen(alg) ==
    CASE alg = S_sha256 -> 64
      [] alg = S_sha384 -> 96
      [] alg = S_sha512 -> 128
      [] OTHER -> 0

\* digest.ParseDigest (plugin.go:110) returns a nil error
ParseDigestOK(s) ==
    Bind(IndexOf(s, ":"), LAMBDA i :
        LET alg == SubSeq(s, 1, i - 1)
            hex == From(s, i + 1)
        IN  /\ i > 1
            /\ \A k \in 1..Len(alg) : alg[k] \in Alnum \cup {"-", "_", "+", "."}
            /\ Len(hex) > 0
            /\ \A k \in 1..Len(hex) : hex[k] \in HexDigit
            /\ DigestHexLen(alg) = Len(hex))

Ref(n, t, d) == [name |-> n, tag |-> t, digest |-> d]

NilRef == Ref(<<>>, <<>>, <<>>)

\* distribution reference.Parse: name, then optionally ":" tag, then optionally "@" digest
distParse(s) ==
    Bind(IndexOf(s, "@"), LAMBDA at :
    Bind(IF at = 0 THEN s ELSE SubSeq(s, 1, at - 1), LAMBDA left :
    Bind(IndexFrom(left, ":", LastIndexOf(left, "/") + 1), LAMBDA colon :
        LET dg   == IF at = 0 THEN <<>> ELSE From(s, at + 1)
            name == IF colon = 0 THEN left ELSE SubSeq(left, 1, colon - 1)
            tag  == IF colon = 0 THEN <<>> ELSE From(left, colon + 1)
        IN  IF /\ IsName(name)
               /\ colon # 0 => IsTag(tag)
               /\ at # 0 => ParseDigestOK(dg)
            THEN [ok |-> TRUE, ref |-> Ref(name, tag, dg)]
            ELSE [ok |-> FALSE, ref |-> NilRef])))

\* docker reference.splitHostname: <<hostname, remote name>> with the default hostname made explicit
dockerSplitHostname(name) ==
    Bind(IndexOf(name, "/"), LAMBDA i :
    Bind(SubSeq(name, 1, i - 1), LAMBDA first :
        LET bare == \/ i = 0
                    \/ /\ ~Contains(first, ".")
                       /\ ~Contains(first, ":")
                       /\ first # S_localhost
            h0   == IF bare THEN S_docker_io ELSE first
            r0   == IF bare THEN name ELSE From(name, i + 1)
            h    == IF h0 = S_index_docker_io THEN S_docker_io ELSE h0
            r    == IF h = S_docker_io /\ ~Contains(r0, "/") THEN S_library \o r0 ELSE r0
        IN  <<h, r>>))

\* docker reference.WithName: normalize, validateName, distribution WithName
WithName(name) ==
    Bind(dockerSplitHostname(name), LAMBDA hr :
    Bind(IF hr[1] # S_docker_io THEN name
         ELSE IF HasPrefix(hr[2], S_library) THEN From(hr[2], Len(S_library) + 1)
         ELSE hr[2], LAMBDA norm :
        LET upper == \E k \in 1..Len(hr[2]) : hr[2][k] \in Upper
            hexId == Len(norm) = 64 /\ \A k \in 1..Len(norm) : norm[k] \in Digit \cup {"a", "b", "c", "d", "e", "f"}
        IN  IF upper
            THEN [ok |-> FALSE, ref |-> NilRef,
                  err |-> Msg("invalid reference format: repository name must be lowercase", <<>>)]
            ELSE IF hexId
            THEN [ok |-> FALSE, ref |-> NilRef,
                  err |-> Msg("Invalid repository name (%s), cannot specify 64-byte hexadecimal strings", <<norm>>)]
            ELSE IF ~IsName(norm)
            THEN [ok |-> FALSE, ref |-> NilRef, err |-> Msg("invalid reference format", <<>>)]
            ELSE [ok |-> TRUE, ref |-> Ref(norm, <<>>, <<>>), err |-> NoMsg]))

\* WithTag that keeps the digest of a reference that has one
WithTag_KeepDigest(ref, tag) ==
    IF IsTag(tag)
    THEN [ok |-> TRUE, ref |-> Ref(ref.name, tag, ref.digest), err |-> NoMsg]
    ELSE [ok |-> FALSE, ref |-> NilRef, err |-> Msg("invalid tag format", <<>>)]

\* reference.WithTag (plugin.go:115, 306): the name of ref with the tag, nothing else
WithTag(ref, tag) ==
    IF IsTag(tag)
    THEN [ok |-> TRUE, ref |-> Ref(ref.name, tag, <<>>), err |-> NoMsg]
    ELSE [ok |-> FALSE, ref |-> NilRef, err |-> Msg("invalid tag format", <<>>)]

\* reference.WithDigest (plugin.go:112, 311): the name of ref with the digest, nothing else
WithDigest(ref, dg) ==
    IF ParseDigestOK(dg)
    THEN [ok |-> TRUE, ref |-> Ref(ref.name, <<>>, dg), err |-> NoMsg]
    ELSE [ok |-> FALSE, ref |-> NilRef, err |-> Msg("invalid digest format", <<>>)]

\* reference.ParseNamed (plugin.go:101, 203)
ParseNamed(s) ==
    Bind(distParse(s), LAMBDA p :
        IF ~p.ok
        THEN [ok |-> FALSE, ref |-> NilRef,
              err |-> Msg("Error parsing reference: %q is not a valid repository/tag", <<s>>)]
        ELSE Bind(WithName(p.ref.name), LAMBDA n :
                 IF ~n.ok THEN n
                 ELSE IF p.ref.digest # <<>> THEN WithDigest(n.ref, p.ref.digest)
                 ELSE IF p.ref.tag # <<>> THEN WithTag(n.ref, p.ref.tag)
                 ELSE n))

\* reference.IsNameOnly (plugin.go:123)
IsNameOnly(ref) == ref.tag = <<>> /\ ref.digest = <<>>

\* reference.WithDefaultTag (plugin.go:124)
WithDefaultTag(ref) == WithTag(ref, S_latest).ref

\* Reference.String (plugin.go:208, 219)
RefString(ref) ==
    IF ref.tag # <<>> THEN ref.name \o <<":">> \o ref.tag
    ELSE IF ref.digest # <<>> THEN ref.name \o <<"@">> \o ref.digest
    ELSE ref.name

\* distribution reference.SplitHostname (plugin.go:266): <<hostname, remainder>> of a valid name
SplitHostname(ref) ==
    Bind(IndexOf(ref.name, "/"), LAMBDA i :
        LET name  == ref.name
            first == SubSeq(name, 1, i - 1)
        IN  IF i # 0 /\ IsHostname(first) THEN <<first, From(name, i + 1)>>
            ELSE << <<>>, name >>)

(***************************************************************************)
(* Registry qualification (plugin.go:256-319)                              *)
(***************************************************************************)
isValidHostname(hostname) ==
    /\ hostname # <<>>
    /\ ~Contains(hostname, "/")
    /\ \/ Contains(hostname, ".")
       \/ Contains(hostname, ":")
       \/ hostname = S_localhost

\* [indexName, remoteName, err]: err is NoMsg for a nil error
splitReposName(reposName) ==
    Bind(SplitHostname(reposName), LAMBDA sh :
        IF ~isValidHostname(sh[1])
        THEN [indexName |-> <<>>, remoteName |-> reposName, ok |-> TRUE, err |-> NoMsg]
        ELSE Bind(WithName(sh[2]), LAMBDA rn :
                 [indexName |-> sh[1], remoteName |-> rn.ref, ok |-> rn.ok, err |-> rn.err]))

isReferenceFullyQualified(reposName) == splitReposName(reposName).indexName # <<>>

\* substituteReferenceName that keeps the new name and drops the tag or digest
substituteReferenceName_NameOnly(ref, reposName) == WithName(reposName)

\* plugin.go:298-319
substituteReferenceName(ref, reposName) ==
    Bind(WithName(reposName), LAMBDA reposNameRef :
        IF ~reposNameRef.ok THEN reposNameRef
        ELSE IF ref.tag # <<>> THEN WithTag(reposNameRef.ref, ref.tag)
        ELSE IF ref.digest # <<>> THEN WithDigest(reposNameRef.ref, ref.digest)
        ELSE reposNameRef)

qualifyUnqualifiedReference(ref, indexName) ==
    IF ~isValidHostname(indexName)
    THEN [ok |-> FALSE, ref |-> NilRef, err |-> Msg("Invalid hostname %q", <<indexName>>)]
    ELSE Bind(splitReposName(ref), LAMBDA sp :
             IF ~sp.ok THEN [ok |-> FALSE, ref |-> NilRef, err |-> sp.err]
             ELSE IF sp.indexName = <<>>
             THEN substituteReferenceName(ref, indexName \o <<"/">> \o sp.remoteName.name)
             ELSE [ok |-> TRUE, ref |-> ref, err |-> NoMsg])

(***************************************************************************)
(* Inputs: the requests the daemon sends, the registry lists it reports,   *)
(* the manifests a registry serves.                                        *)
(***************************************************************************)
S_foo == <<"f", "o", "o">>

S_rhel7 == <<"r", "h", "e", "l", "/", "r", "h", "e", "l", "7">>

S_quay_foo == <<"q", "u", "a", "y", ".", "i", "o", "/", "f", "o", "o">>

S_Foo == <<"F", "o", "o">>

S_v1 == <<"v", "1">>

S_badtag == <<"s", "h", "a", "2", "5", "6", ":", "a", "b", "c">>

S_redhat_io == <<"r", "e", "d", "h", "a", "t", ".", "i", "o">>

S_myreg == <<"m", "y", "r", "e", "g">>

S_v124 == <<"/", "v", "1", ".", "2", "4">>

S_images_json == <<"/", "i", "m", "a", "g", "e", "s", "/", "j", "s", "o", "n">>

S_fromSrc == <<"?", "f", "r", "o", "m", "S", "r", "c", "=", "-">>

S_enc_question == <<"/", "i", "m", "a", "g", "e", "s", "/", "c", "r", "e", "a", "t", "e", "%", "3", "F", "f", "r", "o", "m", "I", "m", "a", "g", "e", "=", "f", "o", "o", "&", "t", "a", "g", "=", "v", "1">>

S_enc_slash == <<"/", "i", "m", "a", "g", "e", "s", "/", "c", "r", "e", "a", "t", "e", "?", "f", "r", "o", "m", "I", "m", "a", "g", "e", "=", "q", "u", "a", "y", ".", "i", "o", "%", "2", "F", "f", "o", "o", "&", "t", "a", "g", "=", "v", "1">>

S_enc_amp == <<"/", "i", "m", "a", "g", "e", "s", "/", "c", "r", "e", "a", "t", "e", "?", "f", "r", "o", "m", "I", "m", "a", "g", "e", "=", "f", "o", "o", "%", "2", "6", "x", "=", "y", "&", "t", "a", "g", "=", "v", "1">>

S_enc_newline == <<"/", "i", "m", "a", "g", "e", "s", "/", "c", "r", "e", "a", "t", "e", "?", "f", "r", "o", "m", "I", "m", "a", "g", "e", "=", "f", "o", "o", "&", "t", "a", "g", "=", "v", "1", "%", "0", "A">>

S_enc_bad == <<"/", "i", "m", "a", "g", "e", "s", "/", "c", "r", "e", "a", "t", "e", "?", "f", "r", "o", "m", "I", "m", "a", "g", "e", "=", "f", "o", "o", "%", "z", "z", "&", "t", "a", "g", "=", "v", "1">>

DigA == S_sha256 \o <<":">> \o Rep("a", 64)

DigB == S_sha256 \o <<":">> \o Rep("b", 64)

\* a repository token that itself carries a digest
S_foo_at_DigA == S_foo \o <<"@">> \o DigA

Methods == {"POST", "GET"}

RepoTokens == {S_foo, S_rhel7, S_quay_foo, S_Foo, <<>>, S_foo_at_DigA}

TagTokens == {S_v1, S_latest, DigA, DigB, S_badtag, <<>>}

PullURI(repo, tag) == S_ImagesCreate \o S_FromImage \o repo \o S_AmpTag \o tag

URIs ==
    {PullURI(r, t) : r \in RepoTokens, t \in TagTokens}
    \cup {S_ImagesCreate, S_ImagesCreate \o S_FromImage \o S_foo,
          S_v124 \o PullURI(S_foo, S_v1), S_images_json,
          S_ImagesCreate \o S_fromSrc,
          S_enc_question, S_enc_slash, S_enc_amp, S_enc_newline, S_enc_bad}

RegistryHosts == {S_docker_io, S_redhat_io, S_myreg, <<>>}

\* the longest registry list the daemon reports
MaxRegistries == 2

RegistryLists == UNION {[1..n -> RegistryHosts] : n \in 0..MaxRegistries}

Manifests == {"manifestA", "manifestB", "manifestBad"}

\* manifest.Digest (plugin.go:190): the digest of the manifest bytes, or an error
manifestDigest(m) ==
    CASE m = "manifestA" -> [ok |-> TRUE, digest |-> DigA]
      [] m = "manifestB" -> [ok |-> TRUE, digest |-> DigB]
      [] OTHER -> [ok |-> FALSE, digest |-> <<>>]

(***************************************************************************)
(* authorization.Response and the texts AuthZReq returns                   *)
(***************************************************************************)
Response(allow, msg, err) == [Allow |-> allow, Msg |-> msg, Err |-> err]

ZeroResponse == Response(FALSE, NoMsg, NoMsg)

\* plugin.go:231
AllowResponse == Response(TRUE, NoMsg, NoMsg)

\* the noallow label returning the zero Response
NoAllowResponse_Silent == Response(FALSE, NoMsg, NoMsg)

\* plugin.go:234
NoAllowResponse == Response(FALSE, Msg("image isn't allowed", <<>>), NoMsg)

ErrResponse(e) == Response(FALSE, NoMsg, e)

E_NoSubmatch == Msg("unable to find repository name and reference", <<>>)

E_AllTags == Msg("unable to verify all tags for the given image", <<>>)

E_Ambiguous == Msg("can't check signatures, please pull with a fully qualified image name", <<>>)

\* plugin.go:199
E_Mismatch(provided, computed) ==
    Msg("digests mismatch, provided %s, computed %s", <<provided, computed>>)

\* plugin.go:224
E_ManualPull(repo, tag, dg) ==
    Msg("image is allowed but can't pull by tag. Pull the image with 'docker pull %s@%s' and tag it with 'docker tag %s@%s %s:%s'",
        <<repo, dg, repo, dg, repo, tag>>)

\* err.Error() of a failing collaborator call
E_Call(op) == Msg(op, <<>>)

Call(op, ok, args) == [op |-> op, ok |-> ok, args |-> args]

(***************************************************************************)
(* State                                                                   *)
(***************************************************************************)
VARIABLES
    config,      \* trustPlugin.config, read by newPlugin
    pc,          \* where AuthZReq stands
    req,         \* authorization.Request
    res,         \* the submatches of the decoded URI
    ref,         \* the reference, qualified once past the registry list
    isByDigest,
    registries,
    allowed,
    manifest,    \* d, the manifest bytes
    digest,
    newRef,
    parsedRef,   \* ref as parsed from the request, before qualification rewrites it
    resp,        \* the authorization.Response returned
    calls,       \* the calls made for this request, in order
    parked,      \* the handlers of the other requests in flight, each between two calls
    dirs,        \* the directories that exist
    files,       \* the files that exist: path to data, mode and the PutBlob call that wrote it
    bpc,         \* where PutBlob stands
    stream,      \* the io.Reader given to PutBlob
    inputInfo,   \* the types.BlobInfo given to PutBlob
    blobFile,    \* the path of the temporary file
    succeeded,
    size,
    computedDigest,
    blobPath,
    ret,         \* what PutBlob returns: the BlobInfo and the error
    ops,         \* the system calls of this PutBlob and how each ended
    ncalls       \* the PutBlob calls so far

pluginVars == <<config, pc, req, res, ref, isByDigest, registries, allowed,
                manifest, digest, newRef, parsedRef, resp, calls, parked>>

putBlobVars == <<dirs, files, bpc, stream, inputInfo, blobFile, succeeded, size,
                 computedDigest, blobPath, ret, ops, ncalls>>

vars == <<pluginVars, putBlobVars>>

locals == <<res, ref, isByDigest, registries, allowed, manifest, digest, newRef, parsedRef>>

ZeroRequest == [RequestMethod |-> "", RequestURI |-> <<>>]

\* types.BlobInfo{}
NoBlobInfo == [Digest |-> <<>>, Size |-> 0]

\* a path that names no file
NoPath == [dir |-> "", name |-> <<>>]

\* the locals of PutBlob before a call
PutBlobLocals ==
    /\ bpc = "idle"
    /\ stream = [data |-> <<>>, fails |-> FALSE]
    /\ inputInfo = [Digest |-> <<>>, Size |-> -1]
    /\ blobFile = NoPath
    /\ succeeded = FALSE
    /\ size = 0
    /\ computedDigest = <<>>
    /\ blobPath = NoPath
    /\ ret = [info |-> NoBlobInfo, err |-> ""]
    /\ ops = <<>>
    /\ ncalls = 0

\* no image destination in use
NoPutBlob ==
    /\ dirs = {}
    /\ files = <<>>
    /\ PutBlobLocals

Init ==
    /\ config \in [Enabled : BOOLEAN, AutoPull : BOOLEAN]
    /\ pc = "idle"
    /\ req = ZeroRequest
    /\ res = NoSubmatch
    /\ ref = NilRef
    /\ isByDigest = FALSE
    /\ registries = <<>>
    /\ allowed = FALSE
    /\ manifest = ""
    /\ digest = <<>>
    /\ newRef = NilRef
    /\ parsedRef = NilRef
    /\ resp = ZeroResponse
    /\ calls = <<>>
    /\ parked = <<>>
    /\ NoPutBlob

\* return r
Return(r) ==
    /\ resp' = r
    /\ pc' = "done"

(***************************************************************************)
(* AuthZReq (plugin.go:91-235), one action per blocking call               *)
(***************************************************************************)
\* res[2] and res[4] of the Go slice
res2(r) == r[3]

res4(r) == r[5]

\* isPullRequest without the test of the method
isPullRequest_AnyMethod(r) == pullRegExp_MatchString(r.RequestURI)

\* plugin.go:92
isPullRequest(r) ==
    r.RequestMethod = "POST" /\ pullRegExp_MatchString(r.RequestURI)

\* the handler returns the error e before it has a reference
StopParse(e) ==
    [stop |-> TRUE, resp |-> ErrResponse(e), res |-> NoSubmatch,
     ref |-> NilRef, isByDigest |-> FALSE]

\* parseRequest with the missing tag defaulted to "latest" instead of refused
parseRequest_DefaultTag(uri) ==
    Bind(QueryUnescape(uri), LAMBDA dec :
    IF ~dec.ok THEN StopParse(Msg("invalid URL escape", <<>>))
    ELSE
    Bind(pullRegExp_FindStringSubmatch(dec.value), LAMBDA r :
    IF Len(r) < 5 THEN StopParse(E_NoSubmatch)
    ELSE
    Bind(ParseNamed(res2(r)), LAMBDA named :
    IF ~named.ok THEN StopParse(named.err)
    ELSE
    Bind(ParseDigestOK(res4(r)), LAMBDA isDg :
    Bind(IF isDg THEN WithDigest(named.ref, res4(r))
         ELSE IF res4(r) = <<>> THEN named
         ELSE WithTag(named.ref, res4(r)), LAMBDA with :
    IF ~with.ok THEN StopParse(with.err)
    ELSE [stop |-> FALSE, resp |-> ZeroResponse, res |-> r,
          ref |-> IF IsNameOnly(with.ref) THEN WithDefaultTag(with.ref) ELSE with.ref,
          isByDigest |-> isDg])))))

\* plugin.go:93-125: decode, match, parse and classify.  stop is TRUE when the
\* handler returns resp; otherwise it goes on with res, ref and isByDigest.
parseRequest(uri) ==
    Bind(QueryUnescape(uri), LAMBDA dec :
    IF ~dec.ok THEN StopParse(Msg("invalid URL escape", <<>>))
    ELSE
    Bind(pullRegExp_FindStringSubmatch(dec.value), LAMBDA r :
    IF Len(r) < 5 THEN StopParse(E_NoSubmatch)
    ELSE
    Bind(ParseNamed(res2(r)), LAMBDA named :
    IF ~named.ok THEN StopParse(named.err)
    ELSE IF res4(r) = <<>> THEN StopParse(E_AllTags)
    ELSE
    Bind(ParseDigestOK(res4(r)), LAMBDA isDg :
    Bind(IF isDg THEN WithDigest(named.ref, res4(r))
         ELSE WithTag(named.ref, res4(r)), LAMBDA with :
    IF ~with.ok THEN StopParse(with.err)
    ELSE [stop |-> FALSE, resp |-> ZeroResponse, res |-> r,
          ref |-> IF IsNameOnly(with.ref) THEN WithDefaultTag(with.ref) ELSE with.ref,
          isByDigest |-> isDg])))))

\* isAmbiguous with the length test off by one
isAmbiguous_OffByOne(r, regs) == ~isReferenceFullyQualified(r) /\ Len(regs) > 2

\* plugin.go:141
isAmbiguous(r, regs) == ~isReferenceFullyQualified(r) /\ Len(regs) > 1

\* plugin.go:145-148
defaultRegistryOf(regs) == IF Len(regs) # 0 THEN regs[1] ELSE <<>>

\* qualify that leaves every reference as it was parsed
qualify_AsIs(r, regs) ==
    IF isAmbiguous(r, regs)
    THEN [ok |-> FALSE, ref |-> NilRef, err |-> E_Ambiguous]
    ELSE [ok |-> TRUE, ref |-> r, err |-> NoMsg]

\* plugin.go:141-161: the reference to evaluate, or the error to return
qualify(r, regs) ==
    LET defaultRegistry == defaultRegistryOf(regs)
    IN  IF isAmbiguous(r, regs)
        THEN [ok |-> FALSE, ref |-> NilRef, err |-> E_Ambiguous]
        ELSE IF defaultRegistry # <<>> /\ defaultRegistry # S_docker_io
        THEN qualifyUnqualifiedReference(r, defaultRegistry)
        ELSE [ok |-> TRUE, ref |-> r, err |-> NoMsg]

\* digestsEqual comparing only the algorithm prefix
digestsEqual_PrefixOnly(r, dg) ==
    SubSeq(res4(r), 1, IndexOf(res4(r), ":")) = SubSeq(dg, 1, IndexOf(dg, ":"))

\* plugin.go:196
digestsEqual(r, dg) == res4(r) = dg

\* the handler returns x once the image is evaluated
StopWith(x) == [stop |-> TRUE, resp |-> x, newRef |-> NilRef]

\* reconcile that pulls and retags whatever AutoPull says
reconcile_AlwaysPull(r, byDigest, isAllowed, dg, autoPull) ==
    IF ~isAllowed THEN StopWith(NoAllowResponse)
    ELSE IF byDigest
    THEN IF digestsEqual(r, dg) THEN StopWith(AllowResponse)
         ELSE StopWith(ErrResponse(E_Mismatch(res4(r), dg)))
    ELSE Bind(ParseNamed(res2(r) \o <<"@">> \o dg), LAMBDA parsed :
             IF ~parsed.ok THEN StopWith(ErrResponse(parsed.err))
             ELSE [stop |-> FALSE, resp |-> ZeroResponse, newRef |-> parsed.ref])

\* reconcile that pulls and retags for a request by digest too
reconcile_PullByDigest(r, byDigest, isAllowed, dg, autoPull) ==
    IF ~isAllowed THEN StopWith(NoAllowResponse)
    ELSE IF byDigest /\ ~digestsEqual(r, dg)
    THEN StopWith(ErrResponse(E_Mismatch(res4(r), dg)))
    ELSE IF ~byDigest /\ ~autoPull
    THEN StopWith(ErrResponse(E_ManualPull(res2(r), res4(r), dg)))
    ELSE Bind(ParseNamed(res2(r) \o <<"@">> \o dg), LAMBDA parsed :
             IF ~parsed.ok THEN StopWith(ErrResponse(parsed.err))
             ELSE [stop |-> FALSE, resp |-> ZeroResponse, newRef |-> parsed.ref])

\* reconcile that looks at allowed only for a request by tag
reconcile_DigestFirst(r, byDigest, isAllowed, dg, autoPull) ==
    IF byDigest
    THEN IF digestsEqual(r, dg) THEN StopWith(AllowResponse)
         ELSE StopWith(ErrResponse(E_Mismatch(res4(r), dg)))
    ELSE IF ~isAllowed THEN StopWith(NoAllowResponse)
    ELSE IF ~autoPull THEN StopWith(ErrResponse(E_ManualPull(res2(r), res4(r), dg)))
    ELSE Bind(ParseNamed(res2(r) \o <<"@">> \o dg), LAMBDA parsed :
             IF ~parsed.ok THEN StopWith(ErrResponse(parsed.err))
             ELSE [stop |-> FALSE, resp |-> ZeroResponse, newRef |-> parsed.ref])

\* plugin.go:194-228, up to the pull: the response, or go on to pull newRef
reconcile(r, byDigest, isAllowed, dg, autoPull) ==
    IF ~isAllowed THEN StopWith(NoAllowResponse)
    ELSE IF byDigest
    THEN IF digestsEqual(r, dg) THEN StopWith(AllowResponse)
         ELSE StopWith(ErrResponse(E_Mismatch(res4(r), dg)))
    ELSE IF ~autoPull THEN StopWith(ErrResponse(E_ManualPull(res2(r), res4(r), dg)))
    ELSE Bind(ParseNamed(res2(r) \o <<"@">> \o dg), LAMBDA parsed :
             IF ~parsed.ok THEN StopWith(ErrResponse(parsed.err))
             ELSE [stop |-> FALSE, resp |-> ZeroResponse, newRef |-> parsed.ref])

\* plugin.go:91-125
AuthZReq ==
    /\ pc = "idle"
    /\ \E m \in Methods, u \in URIs :
          /\ req' = [RequestMethod |-> m, RequestURI |-> u]
          /\ IF ~isPullRequest([RequestMethod |-> m, RequestURI |-> u])
             THEN Return(AllowResponse) /\ UNCHANGED <<res, ref, isByDigest, parsedRef>>
             ELSE \E p \in {parseRequest(u)} :
                     IF p.stop
                     THEN Return(p.resp) /\ UNCHANGED <<res, ref, isByDigest, parsedRef>>
                     ELSE /\ res' = p.res
                          /\ ref' = p.ref
                          /\ parsedRef' = p.ref
                          /\ isByDigest' = p.isByDigest
                          /\ pc' = "Info"
                          /\ UNCHANGED resp
    /\ UNCHANGED <<putBlobVars, config, parked, registries, allowed, manifest, digest, newRef, calls>>

\* plugin.go:127-161 with getAdditionalDockerRegistries (plugin.go:241-254)
Info ==
    /\ pc = "Info"
    /\ \/ /\ calls' = Append(calls, Call("Info", FALSE, <<>>))
          /\ Return(ErrResponse(E_Call("Info")))
          /\ UNCHANGED <<registries, ref>>
       \/ \E regs \in RegistryLists :
             \E q \in {qualify(ref, regs)} :
                 /\ calls' = Append(calls, Call("Info", TRUE, <<>>))
                 /\ registries' = regs
                 /\ IF ~q.ok
                    THEN Return(ErrResponse(q.err)) /\ UNCHANGED ref
                    ELSE ref' = q.ref /\ pc' = "NewImage" /\ UNCHANGED resp
    /\ UNCHANGED <<putBlobVars, config, parked, req, res, isByDigest, allowed, manifest, digest, newRef, parsedRef>>

\* Step that drops the error of the call and goes on
Step_ErrorDropped(op, args, next) ==
    /\ \E ok \in BOOLEAN :
          /\ calls' = Append(calls, Call(op, ok, args))
          /\ pc' = next
          /\ UNCHANGED resp

\* a call that either fails, and the handler returns its error, or succeeds
Step(op, args, next) ==
    /\ \E ok \in BOOLEAN :
          /\ calls' = Append(calls, Call(op, ok, args))
          /\ IF ok THEN pc' = next /\ UNCHANGED resp
             ELSE Return(ErrResponse(E_Call(op)))

\* plugin.go:166-173: docker.NewReference, which rejects a reference with
\* neither tag nor digest, and imgRef.NewImage
NewImage ==
    /\ pc = "NewImage"
    /\ IF IsNameOnly(ref)
       THEN Return(ErrResponse(E_Call("NewReference"))) /\ UNCHANGED calls
       ELSE Step("NewImage", <<RefString(ref)>>, "DefaultPolicy")
    /\ UNCHANGED <<putBlobVars, config, parked, req, locals>>

\* plugin.go:174-177
DefaultPolicy ==
    /\ pc = "DefaultPolicy"
    /\ Step("DefaultPolicy", <<>>, "NewPolicyContext")
    /\ UNCHANGED <<putBlobVars, config, parked, req, locals>>

\* plugin.go:178-181
NewPolicyContext ==
    /\ pc = "NewPolicyContext"
    /\ Step("NewPolicyContext", <<>>, "IsRunningImageAllowed")
    /\ UNCHANGED <<putBlobVars, config, parked, req, locals>>

\* plugin.go:182-185
IsRunningImageAllowed ==
    /\ pc = "IsRunningImageAllowed"
    /\ \/ /\ calls' = Append(calls, Call("IsRunningImageAllowed", FALSE, <<>>))
          /\ Return(ErrResponse(E_Call("IsRunningImageAllowed")))
          /\ UNCHANGED allowed
       \/ \E a \in BOOLEAN :
             /\ calls' = Append(calls, Call("IsRunningImageAllowed", TRUE, <<>>))
             /\ allowed' = a
             /\ pc' = "Manifest"
             /\ UNCHANGED resp
    /\ UNCHANGED <<putBlobVars, config, parked, req, res, ref, isByDigest, registries, manifest, digest, newRef, parsedRef>>

\* plugin.go:186-189
Manifest ==
    /\ pc = "Manifest"
    /\ \/ /\ calls' = Append(calls, Call("Manifest", FALSE, <<>>))
          /\ Return(ErrResponse(E_Call("Manifest")))
          /\ UNCHANGED manifest
       \/ \E m \in Manifests :
             /\ calls' = Append(calls, Call("Manifest", TRUE, <<>>))
             /\ manifest' = m
             /\ pc' = "Digest"
             /\ UNCHANGED resp
    /\ UNCHANGED <<putBlobVars, config, parked, req, res, ref, isByDigest, registries, allowed, digest, newRef, parsedRef>>

\* plugin.go:190-228
Digest ==
    /\ pc = "Digest"
    /\ \E d \in {manifestDigest(manifest)} :
          /\ calls' = Append(calls, Call("Digest", d.ok, <<>>))
          /\ IF ~d.ok
             THEN Return(ErrResponse(E_Call("Digest"))) /\ UNCHANGED <<digest, newRef>>
             ELSE /\ digest' = d.digest
                  /\ \E x \in {reconcile(res, isByDigest, allowed, d.digest, config.AutoPull)} :
                         IF x.stop THEN Return(x.resp) /\ UNCHANGED newRef
                         ELSE newRef' = x.newRef /\ pc' = "ImagePull" /\ UNCHANGED resp
    /\ UNCHANGED <<putBlobVars, config, parked, req, res, ref, isByDigest, registries, allowed, manifest, parsedRef>>

\* ImagePull that pulls again after a failed pull
ImagePull_Retry ==
    /\ pc = "ImagePull"
    /\ \E ok \in BOOLEAN :
          /\ calls' = Append(calls, Call("ImagePull", ok, <<RefString(newRef)>>))
          /\ pc' = IF ok THEN "ReadAll" ELSE "ImagePull"
          /\ UNCHANGED resp
    /\ UNCHANGED <<putBlobVars, config, parked, req, locals>>

\* plugin.go:208-211
ImagePull ==
    /\ pc = "ImagePull"
    /\ Step("ImagePull", <<RefString(newRef)>>, "ReadAll")
    /\ UNCHANGED <<putBlobVars, config, parked, req, locals>>

\* ReadAll that does not look at the error of reading the stream
ReadAll_Unchecked ==
    /\ pc = "ReadAll"
    /\ \E ok \in BOOLEAN :
          /\ calls' = Append(calls, Call("ReadAll", ok, <<>>))
          /\ pc' = "ImageTag"
          /\ UNCHANGED resp
    /\ UNCHANGED <<putBlobVars, config, parked, req, locals>>

\* plugin.go:213-217
ReadAll ==
    /\ pc = "ReadAll"
    /\ Step("ReadAll", <<>>, "ImageTag")
    /\ UNCHANGED <<putBlobVars, config, parked, req, locals>>

\* ImageTag that allows whatever the retag returned
ImageTag_Unchecked ==
    /\ pc = "ImageTag"
    /\ \E ok \in BOOLEAN :
          /\ calls' = Append(calls,
                Call("ImageTag", ok, <<RefString(newRef), res2(res) \o <<":">> \o res4(res)>>))
          /\ Return(AllowResponse)
    /\ UNCHANGED <<putBlobVars, config, parked, req, locals>>

\* plugin.go:219-222, 231
ImageTag ==
    /\ pc = "ImageTag"
    /\ \E ok \in BOOLEAN :
          /\ calls' = Append(calls,
                Call("ImageTag", ok, <<RefString(newRef), res2(res) \o <<":">> \o res4(res)>>))
          /\ IF ok THEN Return(AllowResponse)
             ELSE Return(ErrResponse(E_Call("ImageTag")))
    /\ UNCHANGED <<putBlobVars, config, parked, req, locals>>

\* the response is handed to the daemon; the next request starts afresh
Done ==
    /\ pc = "done"
    /\ pc' = "idle"
    /\ req' = ZeroRequest
    /\ res' = NoSubmatch
    /\ ref' = NilRef
    /\ isByDigest' = FALSE
    /\ registries' = <<>>
    /\ allowed' = FALSE
    /\ manifest' = ""
    /\ digest' = <<>>
    /\ newRef' = NilRef
    /\ parsedRef' = NilRef
    /\ resp' = ZeroResponse
    /\ calls' = <<>>
    /\ UNCHANGED <<putBlobVars, config, parked>>

Next ==
    \/ AuthZReq
    \/ Info
    \/ NewImage
    \/ DefaultPolicy
    \/ NewPolicyContext
    \/ IsRunningImageAllowed
    \/ Manifest
    \/ Digest
    \/ ImagePull
    \/ ReadAll
    \/ ImageTag
    \/ Done

Spec == Init /\ [][Next]_vars

TypeOK ==
    /\ pc \in {"idle", "Info", "NewImage", "DefaultPolicy", "NewPolicyContext",
               "IsRunningImageAllowed", "Manifest", "Digest", "ImagePull",
               "ReadAll", "ImageTag", "done"}
    /\ resp.Allow \in BOOLEAN

(***************************************************************************)
(* Several requests in flight: the server runs AuthZReq for each request   *)
(* in a goroutine of its own (main.go:29-33).  The variables above are the *)
(* locals of the handler that is running; the other handlers wait in       *)
(* parked, each between two of its calls, and every local of AuthZReq goes *)
(* with its handler.  config belongs to the plugin and is shared.          *)
(***************************************************************************)
\* the number of requests in flight
MaxHandlers == 2

ConcURIs == {PullURI(S_foo, S_v1), PullURI(S_foo, DigA), S_images_json}

ConcRegistryLists == {<<S_redhat_io>>}

ConcManifests == {"manifestA"}

\* the calls to the docker daemon, the ones that fail while several requests are in flight
DaemonCalls == {"Info", "ImagePull", "ImageTag"}

\* the requests that are in flight together
ConcRequest == req.RequestMethod = "POST" /\ req.RequestURI \in ConcURIs

\* the answers of the collaborators while several requests are in flight
ConcAnswers ==
    /\ \A i \in 1..Len(calls) : calls[i].ok \/ calls[i].op \in DaemonCalls
    /\ Len(calls) > 0 /\ calls[Len(calls)].ok =>
          /\ registries \in ConcRegistryLists
          /\ manifest \in ConcManifests \cup {""}

\* the locals of the running handler
Ctx ==
    [pc |-> pc, req |-> req, res |-> res, ref |-> ref, isByDigest |-> isByDigest,
     registries |-> registries, allowed |-> allowed, manifest |-> manifest,
     digest |-> digest, newRef |-> newRef, parsedRef |-> parsedRef,
     resp |-> resp, calls |-> calls]

\* a handler waiting for its request
IdleCtx ==
    [pc |-> "idle", req |-> ZeroRequest, res |-> NoSubmatch, ref |-> NilRef,
     isByDigest |-> FALSE, registries |-> <<>>, allowed |-> FALSE, manifest |-> "",
     digest |-> <<>>, newRef |-> NilRef, parsedRef |-> NilRef,
     resp |-> ZeroResponse, calls |-> <<>>]

\* Switch with isByDigest kept in the plugin, one for all handlers
Switch_SharedIsByDigest(k) ==
    /\ parked' = [parked EXCEPT ![k] = Ctx]
    /\ pc' = parked[k].pc
    /\ req' = parked[k].req
    /\ res' = parked[k].res
    /\ ref' = parked[k].ref
    /\ registries' = parked[k].registries
    /\ allowed' = parked[k].allowed
    /\ manifest' = parked[k].manifest
    /\ digest' = parked[k].digest
    /\ newRef' = parked[k].newRef
    /\ parsedRef' = parked[k].parsedRef
    /\ resp' = parked[k].resp
    /\ calls' = parked[k].calls
    /\ UNCHANGED <<putBlobVars, config, isByDigest>>

\* the scheduler stops the running handler between two calls and runs handler k
Switch(k) ==
    /\ parked' = [parked EXCEPT ![k] = Ctx]
    /\ pc' = parked[k].pc
    /\ req' = parked[k].req
    /\ res' = parked[k].res
    /\ ref' = parked[k].ref
    /\ isByDigest' = parked[k].isByDigest
    /\ registries' = parked[k].registries
    /\ allowed' = parked[k].allowed
    /\ manifest' = parked[k].manifest
    /\ digest' = parked[k].digest
    /\ newRef' = parked[k].newRef
    /\ parsedRef' = parked[k].parsedRef
    /\ resp' = parked[k].resp
    /\ calls' = parked[k].calls
    /\ UNCHANGED <<putBlobVars, config>>

InitC ==
    /\ config \in [Enabled : {TRUE}, AutoPull : BOOLEAN]
    /\ pc = "idle"
    /\ req = ZeroRequest
    /\ res = NoSubmatch
    /\ ref = NilRef
    /\ isByDigest = FALSE
    /\ registries = <<>>
    /\ allowed = FALSE
    /\ manifest = ""
    /\ digest = <<>>
    /\ newRef = NilRef
    /\ parsedRef = NilRef
    /\ resp = ZeroResponse
    /\ calls = <<>>
    /\ parked = [k \in 1..(MaxHandlers - 1) |-> IdleCtx]
    /\ NoPutBlob

NextC ==
    \/ AuthZReq /\ ConcRequest'
    \/ Info /\ ConcAnswers'
    \/ NewImage /\ ConcAnswers'
    \/ DefaultPolicy /\ ConcAnswers'
    \/ NewPolicyContext /\ ConcAnswers'
    \/ IsRunningImageAllowed /\ ConcAnswers'
    \/ Manifest /\ ConcAnswers'
    \/ Digest
    \/ ImagePull
    \/ ReadAll /\ ConcAnswers'
    \/ ImageTag
    \/ Done
    \/ \E k \in 1..Len(parked) : Switch(k)

SpecC == InitC /\ [][NextC]_vars

(***************************************************************************)
(* ociImageDestination.PutBlob (part_000), one action for each system   *)
(* call.  A path is a directory and a name; a file has its data, its mode  *)
(* and, for the properties, the number of the PutBlob call that wrote it.  *)
(***************************************************************************)
\* the longest stream
MaxLen == 2

\* the number of PutBlob calls
MaxPutBlobs == 2

Bytes == {"a", "b"}

BlobData == UNION {[1..n -> Bytes] : n \in 0..MaxLen}

\* an io.Reader: the bytes it yields, then io.EOF or an error
Streams == [data : BlobData, fails : BOOLEAN]

\* inputInfo: Size is -1 when the length of the stream is not known
InputInfos == [Digest : {<<>>}, Size : {-1} \cup (0..MaxLen)]

\* d.ref.dir
Dir == "dir"

\* filepath.Dir(blobPath)
BlobsDir == "dir/blobs/sha256"

\* ioutil.TempFile(d.ref.dir, "oci-put-blob"): a name no file has
TempName(n) == [dir |-> Dir, name |-> <<"oci-put-blob">> \o Rep("x", n)]

RECURSIVE EncodeToString(_)
\* hex.EncodeToString
EncodeToString(b) ==
    IF b = <<>> THEN <<>>
    ELSE (IF Head(b) = "a" THEN <<"6", "1">> ELSE <<"6", "2">>) \o EncodeToString(Tail(b))

\* part_000:79-86: "sha256:" and the hex of h.Sum(nil); the sum is taken
\* to be different for different data, and stands as the data
ComputedDigest(data) == S_sha256 \o <<":">> \o EncodeToString(data)

\* d.ref.blobPath(digest), when it gives a path
BlobPathOf(dg) == [dir |-> BlobsDir, name |-> From(dg, Len(S_sha256) + 2)]

Op(op, ok) == [op |-> op, ok |-> ok]

\* return types.BlobInfo{}, err, with the deferred function still to run
Fail(e) ==
    /\ ret' = [info |-> NoBlobInfo, err |-> e]
    /\ bpc' = "defer"

WriteFile(path, f) ==
    [q \in DOMAIN files \cup {path} |-> IF q = path THEN f ELSE files[q]]

RemoveFile(path) == [q \in DOMAIN files \ {path} |-> files[q]]

\* part_000:184-191: nil when os.Stat answers anything but "does not
\* exist", else the outcome of os.MkdirAll, which makes the directories of made
ensureDirectoryExists(path, made, op, next, failed) ==
    \/ /\ UNCHANGED dirs
       /\ ops' = ops
       /\ bpc' = next
       /\ UNCHANGED ret
    \/ /\ path \notin dirs
       /\ dirs' = dirs \cup made
       /\ ops' = Append(ops, Op(op, TRUE))
       /\ bpc' = next
       /\ UNCHANGED ret
    \/ /\ path \notin dirs
       /\ UNCHANGED dirs
       /\ ops' = Append(ops, Op(op, FALSE))
       /\ ret' = [info |-> NoBlobInfo, err |-> op]
       /\ bpc' = failed

\* part_000:63-66
PutBlob ==
    /\ bpc \in {"idle", "returned"}
    /\ ncalls < MaxPutBlobs
    /\ ncalls' = ncalls + 1
    /\ \E st \in Streams, ii \in InputInfos :
          /\ stream' = st
          /\ inputInfo' = ii
    /\ blobFile' = NoPath
    /\ succeeded' = FALSE
    /\ size' = 0
    /\ computedDigest' = <<>>
    /\ blobPath' = NoPath
    /\ \E cleared \in {[info |-> NoBlobInfo, err |-> ""]} :
          \/ /\ UNCHANGED dirs
             /\ ops' = <<>>
             /\ bpc' = "TempFile"
             /\ ret' = cleared
          \/ /\ Dir \notin dirs
             /\ dirs' = dirs \cup {Dir}
             /\ ops' = <<Op("MkdirAll", TRUE)>>
             /\ bpc' = "TempFile"
             /\ ret' = cleared
          \/ /\ Dir \notin dirs
             /\ UNCHANGED dirs
             /\ ops' = <<Op("MkdirAll", FALSE)>>
             /\ ret' = [info |-> NoBlobInfo, err |-> "MkdirAll"]
             /\ bpc' = "returned"
    /\ UNCHANGED <<pluginVars, files>>

\* part_000:67-77
TempFile ==
    /\ bpc = "TempFile"
    /\ \/ /\ Dir \in dirs
          /\ blobFile' = TempName(ncalls)
          /\ files' = WriteFile(TempName(ncalls), [data |-> <<>>, mode |-> "0600", call |-> ncalls])
          /\ ops' = Append(ops, Op("TempFile", TRUE))
          /\ bpc' = "Copy"
          /\ UNCHANGED ret
       \/ /\ ops' = Append(ops, Op("TempFile", FALSE))
          /\ ret' = [info |-> NoBlobInfo, err |-> "TempFile"]
          /\ bpc' = "returned"
          /\ UNCHANGED <<blobFile, files>>
    /\ UNCHANGED <<pluginVars, dirs, stream, inputInfo, succeeded, size, computedDigest,
                   blobPath, ncalls>>

\* part_000:79-89: io.Copy ends with an error of the stream after all its
\* bytes, or with an error of the file after some of them
Copy ==
    /\ bpc = "Copy"
    /\ \/ \E k \in 0..Len(stream.data) :
             /\ files' = [files EXCEPT ![blobFile].data = SubSeq(stream.data, 1, k)]
             /\ ops' = Append(ops, Op("Copy", FALSE))
             /\ Fail("Copy")
             /\ UNCHANGED <<size, computedDigest>>
       \/ /\ ~stream.fails
          /\ files' = [files EXCEPT ![blobFile].data = stream.data]
          /\ ops' = Append(ops, Op("Copy", TRUE))
          /\ size' = Len(stream.data)
          /\ computedDigest' = ComputedDigest(stream.data)
          /\ IF inputInfo.Size # -1 /\ Len(stream.data) # inputInfo.Size
             THEN Fail("Size mismatch")
             ELSE bpc' = "Sync" /\ UNCHANGED ret
    /\ UNCHANGED <<pluginVars, dirs, stream, inputInfo, blobFile, succeeded, blobPath, ncalls>>

\* a system call on the temporary file that fails, and PutBlob returns its
\* error, or succeeds
FileStep(op, next) ==
    /\ \E ok \in BOOLEAN :
          /\ ops' = Append(ops, Op(op, ok))
          /\ IF ok THEN bpc' = next /\ UNCHANGED ret ELSE Fail(op)

\* part_000:90-92
Sync ==
    /\ bpc = "Sync"
    /\ FileStep("Sync", "Chmod")
    /\ UNCHANGED <<pluginVars, dirs, files, stream, inputInfo, blobFile, succeeded, size,
                   computedDigest, blobPath, ncalls>>

\* part_000:93-95
Chmod ==
    /\ bpc = "Chmod"
    /\ FileStep("Chmod", "blobPath")
    /\ files' = IF bpc' = "blobPath" THEN [files EXCEPT ![blobFile].mode = "0644"] ELSE files
    /\ UNCHANGED <<pluginVars, dirs, stream, inputInfo, blobFile, succeeded, size,
                   computedDigest, blobPath, ncalls>>

\* part_000:97-100
BlobPath ==
    /\ bpc = "blobPath"
    /\ FileStep("blobPath", "MkdirAllParent")
    /\ blobPath' = IF bpc' = "MkdirAllParent" THEN BlobPathOf(computedDigest) ELSE blobPath
    /\ UNCHANGED <<pluginVars, dirs, files, stream, inputInfo, blobFile, succeeded, size,
                   computedDigest, ncalls>>

\* part_000:101-103
EnsureParentDirectoryExists ==
    /\ bpc = "MkdirAllParent"
    /\ ensureDirectoryExists(BlobsDir, {Dir, BlobsDir}, "MkdirAllParent", "Rename", "defer")
    /\ UNCHANGED <<pluginVars, files, stream, inputInfo, blobFile, succeeded, size,
                   computedDigest, blobPath, ncalls>>

\* part_000:104-108
Rename ==
    /\ bpc = "Rename"
    /\ \/ /\ BlobsDir \in dirs
          /\ files' = [q \in (DOMAIN files \ {blobFile}) \cup {blobPath} |->
                          IF q = blobPath THEN files[blobFile] ELSE files[q]]
          /\ ops' = Append(ops, Op("Rename", TRUE))
          /\ succeeded' = TRUE
          /\ ret' = [info |-> [Digest |-> computedDigest, Size |-> size], err |-> ""]
          /\ bpc' = "defer"
       \/ /\ ops' = Append(ops, Op("Rename", FALSE))
          /\ Fail("Rename")
          /\ UNCHANGED <<files, succeeded>>
    /\ UNCHANGED <<pluginVars, dirs, stream, inputInfo, blobFile, size, computedDigest,
                   blobPath, ncalls>>

\* part_000:72-77: the deferred function; the error of os.Remove is dropped
Deferred ==
    /\ bpc = "defer"
    /\ IF succeeded THEN UNCHANGED <<files, ops>>
       ELSE \E ok \in BOOLEAN :
               /\ files' = IF ok THEN RemoveFile(blobFile) ELSE files
               /\ ops' = Append(ops, Op("Remove", ok))
    /\ bpc' = "returned"
    /\ UNCHANGED <<pluginVars, dirs, stream, inputInfo, blobFile, succeeded, size,
                   computedDigest, blobPath, ret, ncalls>>

\* an image destination on a directory that exists or is still to be made
InitP ==
    /\ config = [Enabled |-> TRUE, AutoPull |-> FALSE]
    /\ pc = "idle"
    /\ req = ZeroRequest
    /\ res = NoSubmatch
    /\ ref = NilRef
    /\ isByDigest = FALSE
    /\ registries = <<>>
    /\ allowed = FALSE
    /\ manifest = ""
    /\ digest = <<>>
    /\ newRef = NilRef
    /\ parsedRef = NilRef
    /\ resp = ZeroResponse
    /\ calls = <<>>
    /\ parked = <<>>
    /\ dirs \in {{}, {Dir}, {Dir, BlobsDir}}
    /\ files = <<>>
    /\ PutBlobLocals

NextP ==
    \/ PutBlob
    \/ TempFile
    \/ Copy
    \/ Sync
    \/ Chmod
    \/ BlobPath
    \/ EnsureParentDirectoryExists
    \/ Rename
    \/ Deferred

SpecP == InitP /\ [][NextP]_vars

(***************************************************************************)
(* Vocabulary of the properties                                            *)
(***************************************************************************)
Returned == pc = "done"

Deny == ~resp.Allow

\* the response carries the text, in Msg or in Err
Carries(m) == resp.Msg = m \/ resp.Err = m

Called(op) == \E i \in 1..Len(calls) : calls[i].op = op

Succeeded(op) == \E i \in 1..Len(calls) : calls[i].op = op /\ calls[i].ok

Failed(op) == \E i \in 1..Len(calls) : calls[i].op = op /\ ~calls[i].ok

Count(op) == Cardinality({i \in 1..Len(calls) : calls[i].op = op})

NoStoreChange == ~Called("ImagePull") /\ ~Called("ImageTag")

\* the request is a POST whose URI, as received, has the pull-endpoint shape
PullShaped == req.RequestMethod = "POST" /\ pullRegExp_MatchString(req.RequestURI)

\* the handler parsed the request into a reference with a tag or a digest
Parsed == res # NoSubmatch

\* the request's tag-or-digest token is a digest, respectively is not
ByDigest == Parsed /\ ParseDigestOK(res4(res))

ByTag == Parsed /\ ~ParseDigestOK(res4(res))

\* the policy evaluator answered: allowed or not, and the manifest digest
Evaluated == Succeeded("IsRunningImageAllowed") /\ Succeeded("Manifest") /\ Succeeded("Digest")

EvalOps == {"NewImage", "DefaultPolicy", "NewPolicyContext",
            "IsRunningImageAllowed", "Manifest", "Digest"}

(***************************************************************************)
(* Properties                                                              *)
(***************************************************************************)
\* C1: a request whose method is not POST or whose URI does not have the
\* pull-endpoint shape is answered Allow with empty Msg and Err, and no
\* collaborator is called for it.
C1_PassThrough ==
    (req # ZeroRequest /\ (req.RequestMethod # "POST" \/ ~pullRegExp_MatchString(req.RequestURI)))
        => /\ Returned
           /\ resp = Response(TRUE, NoMsg, NoMsg)
           /\ calls = <<>>

\* a GET on a pull-shaped URI was passed through
C1_Witness ==
    /\ Returned
    /\ req.RequestMethod = "GET"
    /\ pullRegExp_MatchString(req.RequestURI)
    /\ resp.Allow

\* C2: fail-closed: a pull-shaped POST is answered Allow only if decoding and
\* parsing, the registry list, qualification, policy evaluation and the
\* manifest digest all succeeded, the evaluator reported allowed, and either
\* the request was by digest and its digest is the computed one, or it was by
\* tag with AutoPull set and the pull, the reading of its stream and the retag
\* succeeded.  Every other pull-shaped POST is denied.
C2_FailClosed ==
    (Returned /\ PullShaped) =>
        (resp.Allow <=>
            /\ Parsed
            /\ Succeeded("Info")
            /\ \A op \in EvalOps : Succeeded(op)
            /\ allowed
            /\ qualify(parsedRef, registries).ok
            /\ \/ ByDigest /\ res4(res) = digest
               \/ /\ ByTag
                  /\ config.AutoPull
                  /\ Succeeded("ImagePull")
                  /\ Succeeded("ReadAll")
                  /\ Succeeded("ImageTag"))

\* a pull by tag was allowed after pull and retag
C2_Witness ==
    /\ Returned
    /\ PullShaped
    /\ resp.Allow
    /\ ByTag
    /\ Succeeded("ImageTag")

\* C3: when the parsed reference is not fully qualified and the registry list
\* has more than one entry, the request is denied with the ambiguity message;
\* policy evaluation, pull and retag are not called.
C3_Ambiguity ==
    (Len(registries) > 1 /\ Parsed /\ Succeeded("Info") /\ ~isReferenceFullyQualified(parsedRef))
        => /\ Returned
           /\ Deny
           /\ Carries(Msg("can't check signatures, please pull with a fully qualified image name", <<>>))
           /\ calls = <<Call("Info", TRUE, <<>>)>>

C3_Witness ==
    /\ Returned
    /\ Parsed
    /\ Len(registries) = 2
    /\ ~isReferenceFullyQualified(parsedRef)
    /\ Deny

\* C4: a request by digest that the evaluator allows with manifest digest D is
\* answered Allow if its digest is D, and otherwise Deny with the mismatch
\* message naming the supplied digest and D; no pull, no retag.
C4_DigestConsistency ==
    (Returned /\ ByDigest /\ Evaluated /\ allowed) =>
        /\ res4(res) = digest => resp = Response(TRUE, NoMsg, NoMsg)
        /\ res4(res) # digest =>
              /\ Deny
              /\ Carries(Msg("digests mismatch, provided %s, computed %s", <<res4(res), digest>>))
        /\ NoStoreChange

\* an allowed request by digest was denied for a different manifest digest
C4_Witness ==
    /\ Returned
    /\ ByDigest
    /\ Evaluated
    /\ allowed
    /\ res4(res) = DigA
    /\ digest = DigB
    /\ Deny

\* the request carries a tag and no digest, in neither token
TagOnly == ByTag /\ ~Contains(res2(res), "@")

\* the positions of the calls of op
At(op) == {i \in 1..Len(calls) : calls[i].op = op}

\* C5: for a tag-only request the evaluator allows with AutoPull set: pull and
\* retag are each called at most once, and exactly once when nothing failed;
\* the retag comes after the pull and after its stream was read to the end;
\* the answer is Allow only when pull, read and retag succeeded; a failure of
\* one of the three is the Deny returned, and after a failed pull there is no
\* retag.
C5_AutoPull ==
    (TagOnly /\ Evaluated /\ allowed /\ config.AutoPull) =>
        /\ Count("ImagePull") <= 1
        /\ Count("ImageTag") <= 1
        /\ Returned => Count("ImagePull") = 1
        /\ (Returned /\ Succeeded("ImagePull") /\ Succeeded("ReadAll")) => Count("ImageTag") = 1
        /\ \A t \in At("ImageTag") :
              /\ \E i \in At("ImagePull") : i < t /\ calls[i].ok
              /\ \E i \in At("ReadAll") : i < t /\ calls[i].ok
              /\ \A i \in At("ImagePull") \cup At("ReadAll") : i < t
        /\ (Returned /\ resp.Allow) =>
              Succeeded("ImagePull") /\ Succeeded("ReadAll") /\ Succeeded("ImageTag")
        /\ \A op \in {"ImagePull", "ReadAll", "ImageTag"} :
              Failed(op) => Returned /\ resp = Response(FALSE, NoMsg, Msg(op, <<>>))
        /\ Failed("ImagePull") => ~Called("ImageTag")

\* the pull succeeded, its stream was read, and the retag failed
C5_Witness ==
    /\ Returned
    /\ TagOnly
    /\ config.AutoPull
    /\ Succeeded("ImagePull")
    /\ Succeeded("ReadAll")
    /\ Failed("ImageTag")

\* C6: for a request by tag (repository R, tag T) the evaluator allows with
\* manifest digest D while AutoPull is off: Deny, with the message telling to
\* pull R@D and to tag R@D as R:T; never Allow, and no pull or retag.
C6_ManualPull ==
    (ByTag /\ Evaluated /\ allowed /\ ~config.AutoPull) =>
        /\ Returned
        /\ Deny
        /\ Carries(Msg("image is allowed but can't pull by tag. Pull the image with 'docker pull %s@%s' and tag it with 'docker tag %s@%s %s:%s'",
                       <<res2(res), digest, res2(res), digest, res2(res), res4(res)>>))
        /\ NoStoreChange

C6_Witness ==
    /\ Returned
    /\ ByTag
    /\ Evaluated
    /\ allowed
    /\ ~config.AutoPull
    /\ res2(res) = S_rhel7
    /\ digest = DigB

\* C7: when the evaluator reports not allowed, the answer is Deny with the
\* message "image isn't allowed", whether the request was by tag or by digest,
\* whatever AutoPull and the manifest digest; no pull, no retag.
C7_PolicyDenied ==
    (Evaluated /\ ~allowed) =>
        /\ Returned
        /\ Deny
        /\ Carries(Msg("image isn't allowed", <<>>))
        /\ NoStoreChange

\* a request by digest with the digest of the manifest, and not allowed
C7_Witness ==
    /\ Returned
    /\ Evaluated
    /\ ~allowed
    /\ ByDigest
    /\ res4(res) = digest
    /\ config.AutoPull

\* the submatches of the decoded URI of the request
Tokens == pullRegExp_FindStringSubmatch(QueryUnescape(req.RequestURI).value)

\* a pull request whose decoded URI has a repository token and an empty
\* tag-or-digest token
LacksTagAndDigest ==
    /\ req.RequestMethod = "POST"
    /\ pullRegExp_MatchString(req.RequestURI)
    /\ QueryUnescape(req.RequestURI).ok
    /\ Len(Tokens) = 5
    /\ res4(Tokens) = <<>>

\* C8 as stated: every pull request lacking both a tag and a digest token is
\* denied with "unable to verify all tags for the given image", whatever the
\* repository token, an empty or unparsable one included, without any call.
C8_Original ==
    LacksTagAndDigest =>
        /\ Returned
        /\ Deny
        /\ Carries(Msg("unable to verify all tags for the given image", <<>>))
        /\ calls = <<>>

\* C8: a pull request lacking both a tag and a digest token is denied without
\* any call; the message is "unable to verify all tags for the given image"
\* when the repository token parses as a reference, and the parse error of
\* the repository token when it does not.
C8_AllTags ==
    LacksTagAndDigest =>
        /\ Returned
        /\ Deny
        /\ calls = <<>>
        /\ IF ParseNamed(res2(Tokens)).ok
           THEN Carries(Msg("unable to verify all tags for the given image", <<>>))
           ELSE resp.Err = ParseNamed(res2(Tokens)).err

\* a pull of all tags of a well-formed repository was denied
C8_Witness ==
    /\ Returned
    /\ LacksTagAndDigest
    /\ res2(Tokens) = S_rhel7
    /\ Deny

\* C9: a failure of image-handle construction, policy loading, policy-context
\* creation, policy evaluation, manifest retrieval or manifest digest
\* computation ends the request: Deny carrying the error of the failed call,
\* which is the last call made; no pull, no retag.
C9_EvalFailure ==
    \A i \in 1..Len(calls) :
        (calls[i].op \in EvalOps /\ ~calls[i].ok) =>
            /\ Returned
            /\ i = Len(calls)
            /\ resp = Response(FALSE, NoMsg, Msg(calls[i].op, <<>>))
            /\ NoStoreChange

\* the manifest could not be fetched for an allowed image pulled by tag with AutoPull
C9_Witness ==
    /\ Returned
    /\ Failed("Manifest")
    /\ allowed
    /\ ByTag
    /\ config.AutoPull
    /\ Deny

\* C10 as stated: for a fully qualified reference, whatever registry list the
\* daemon reports, qualification returns the reference unchanged without
\* error, and the handler goes on to evaluate the reference as parsed.
C10_Original ==
    (Succeeded("Info") /\ isReferenceFullyQualified(parsedRef)) =>
        /\ ref = parsedRef
        /\ ~(Returned /\ Len(calls) = 1)

(***************************************************************************)
(* Qualification with a single registry                                    *)
(***************************************************************************)
S_redhat_rhel7 == S_redhat_io \o <<"/">> \o S_rhel7

\* the references handed to policy evaluation: the arguments of NewImage
EvaluatedRefs == {calls[i].args[1] : i \in At("NewImage")}

\* C11 as stated: a pull request for rhel/rhel7 with no tag goes on to the
\* registry list, and with the list ["redhat.io"] the reference evaluated is
\* redhat.io/rhel/rhel7:latest.
C11_Original ==
    (Returned /\ LacksTagAndDigest /\ res2(Tokens) = S_rhel7) =>
        /\ Called("Info")
        /\ (Succeeded("Info") /\ registries = <<S_redhat_io>>) =>
              EvaluatedRefs = {S_redhat_rhel7 \o <<":">> \o S_latest}

\* C11: with the registry list ["redhat.io"], a pull request for rhel/rhel7
\* with the tag latest is not denied by qualification, the reference becomes
\* redhat.io/rhel/rhel7 with the tag latest, and that is the reference handed
\* to policy evaluation.  (The tag is the one of the request: a request
\* without a tag is denied before the registry list is asked, see C8.)
C11_Rewrite ==
    (Succeeded("Info") /\ registries = <<S_redhat_io>>
        /\ res2(res) = S_rhel7 /\ res4(res) = S_latest) =>
        /\ ref = Ref(S_redhat_rhel7, S_latest, <<>>)
        /\ ~(Returned /\ Len(calls) = 1)
        /\ Returned => Called("NewImage")
        /\ \A r \in EvaluatedRefs : r = S_redhat_rhel7 \o <<":">> \o S_latest

\* redhat.io/rhel/rhel7:latest was handed to policy evaluation
C11_Witness ==
    /\ Succeeded("NewImage")
    /\ registries = <<S_redhat_io>>
    /\ res2(res) = S_rhel7
    /\ res4(res) = S_latest
    /\ EvaluatedRefs = {S_redhat_rhel7 \o <<":">> \o S_latest}

\* Info answered a list of exactly one registry, which is neither empty nor
\* docker.io, for a request whose parsed reference is not fully qualified
SingleRegistry ==
    /\ Succeeded("Info")
    /\ Len(registries) = 1
    /\ registries[1] # <<>>
    /\ registries[1] # S_docker_io
    /\ ~isReferenceFullyQualified(parsedRef)

\* the parsed reference with the host of the registry list in front of its name
Prepended ==
    Ref(registries[1] \o <<"/">> \o parsedRef.name, parsedRef.tag, parsedRef.digest)

\* qualification let the request through with the host added and nothing else changed
QualifiedByPrepending ==
    /\ ref = Prepended
    /\ ~(Returned /\ Len(calls) = 1)
    /\ \A r \in EvaluatedRefs : r = RefString(Prepended)

Empty(m) == m.fmt = ""

\* C13: every Response AuthZReq returns is either Allow with empty Msg and
\* empty Err, or not Allow with a non-empty Msg or a non-empty Err.
C13_WellFormed ==
    Returned =>
        \/ resp.Allow /\ Empty(resp.Msg) /\ Empty(resp.Err)
        \/ ~resp.Allow /\ (~Empty(resp.Msg) \/ ~Empty(resp.Err))

\* the deny of the policy was returned, with its text in Msg
C13_Witness ==
    /\ Returned
    /\ Evaluated
    /\ ~allowed
    /\ ~resp.Allow
    /\ ~Empty(resp.Msg)
    /\ Empty(resp.Err)

(***************************************************************************)
(* Decoding and matching; the registry list                                *)
(***************************************************************************)
\* the URI of the request, percent-decoded, has the pull-endpoint shape
DecodedPullShaped ==
    Bind(QueryUnescape(req.RequestURI), LAMBDA dec :
        dec.ok /\ pullRegExp_MatchString(dec.value))

\* C14 as stated: the URI is decoded before it is matched, so no POST whose
\* decoded URI has the pull-endpoint shape is passed through as Allow
\* without being handled as a pull, and a POST whose URI does not decode is
\* denied.
C14_Original ==
    (Returned /\ req.RequestMethod = "POST") =>
        /\ DecodedPullShaped => ~(resp.Allow /\ calls = <<>> /\ ~Parsed)
        /\ ~QueryUnescape(req.RequestURI).ok => Deny

\* C15 as stated: for a fully qualified reference the registry list is not
\* asked for, so a failure of the provider cannot deny the request.
C15_Original ==
    (Parsed /\ isReferenceFullyQualified(parsedRef)) =>
        /\ ~Called("Info")
        /\ ~(Returned /\ resp.Err = E_Call("Info"))

(***************************************************************************)
(* The order of the calls                                                  *)
(***************************************************************************)
\* the place of a call in the text of AuthZReq
Rank(op) ==
    CASE op = "Info" -> 1
      [] op = "NewImage" -> 2
      [] op = "DefaultPolicy" -> 3
      [] op = "NewPolicyContext" -> 4
      [] op = "IsRunningImageAllowed" -> 5
      [] op = "Manifest" -> 6
      [] op = "Digest" -> 7
      [] op = "ImagePull" -> 8
      [] op = "ReadAll" -> 9
      [] op = "ImageTag" -> 10

\* C16: no retries: while one request is handled the calls are made in the
\* order of the text (registry list, policy evaluation, manifest, pull,
\* retag), each at most once, and a failing call is the last one: the
\* handler returns Deny without another call.
C16_NoRetry ==
    /\ \A i, j \in 1..Len(calls) : i < j => Rank(calls[i].op) < Rank(calls[j].op)
    /\ \A i \in 1..Len(calls) :
          ~calls[i].ok => /\ i = Len(calls)
                          /\ Returned
                          /\ Deny

\* the pull failed after the seven calls before it succeeded, and ended the request
C16_Witness ==
    /\ Returned
    /\ Deny
    /\ Len(calls) = 8
    /\ Failed("ImagePull")
    /\ \A i \in 1..7 : calls[i].ok

(***************************************************************************)
(* The reference evaluated, the channel of a deny, the local image store   *)
(***************************************************************************)
\* C18: whenever policy evaluation is entered, the reference evaluated has
\* exactly one of tag and digest: the digest of the request when its
\* tag-or-digest token parses as a digest, otherwise that token as the tag;
\* and qualification left the tag and the digest as they were parsed.
C18_TagXorDigest ==
    Called("NewImage") =>
        /\ (ref.tag = <<>>) # (ref.digest = <<>>)
        /\ ByDigest => ref.digest = res4(res) /\ ref.tag = <<>>
        /\ ByTag => ref.tag = res4(res) /\ ref.digest = <<>>
        /\ ref.tag = parsedRef.tag
        /\ ref.digest = parsedRef.digest
        /\ EvaluatedRefs = {RefString(ref)}

\* a request by digest was evaluated under the name qualification gave it
C18_Witness ==
    /\ Called("IsRunningImageAllowed")
    /\ ByDigest
    /\ ref # parsedRef
    /\ ref.digest = DigA
    /\ ref.tag = <<>>

\* the deny is one the handler decides by its own rules
OwnRuleDeny ==
    /\ Parsed
    /\ \/ Carries(NoAllowResponse.Msg)
       \/ Carries(E_Ambiguous)
       \/ Carries(E_Mismatch(res4(res), digest))
       \/ Carries(E_ManualPull(res2(res), res4(res), digest))

\* C19 as stated: a deny by the handler's own rules (policy denied, digest
\* mismatch, by tag without AutoPull, ambiguous qualification) has its
\* reason in Msg and Err empty.
C19_Original ==
    (Returned /\ Deny /\ OwnRuleDeny) => ~Empty(resp.Msg) /\ Empty(resp.Err)

\* C20: ImagePull is called only after policy evaluation answered allowed
\* and the manifest digest was computed, and only for a request by tag with
\* AutoPull; ImageTag only after the pull returned and its stream was read
\* without error.  A request by digest, a denied evaluation and a failed
\* evaluation never call ImagePull or ImageTag.
C20_SideEffectGuard ==
    /\ \A p \in At("ImagePull") :
          /\ allowed
          /\ ByTag
          /\ config.AutoPull
          /\ \A op \in EvalOps : \E i \in At(op) : i < p /\ calls[i].ok
    /\ \A t \in At("ImageTag") :
          /\ \E i \in At("ImagePull") : i < t /\ calls[i].ok
          /\ \E i \in At("ReadAll") : i < t /\ calls[i].ok
    /\ (ByDigest \/ ~allowed \/ \E op \in EvalOps : Failed(op)) => NoStoreChange

\* a request by digest was allowed, its digest being the one computed, without pull or retag
C20_Witness ==
    /\ Returned
    /\ ByDigest
    /\ Evaluated
    /\ allowed
    /\ config.AutoPull
    /\ resp.Allow
    /\ NoStoreChange


(***************************************************************************)
(* C17: requests in flight together                                        *)
(***************************************************************************)
\* every handler, the running one and the waiting ones
Handlers == {Ctx} \cup {parked[k] : k \in 1..Len(parked)}

FailedCalls(c) == {i \in 1..Len(c.calls) : ~c.calls[i].ok}

\* the response AuthZReq gives to the request of handler c when it is the
\* only request, its collaborators answering what they answered to c
Alone(c) ==
    IF ~isPullRequest(c.req) THEN AllowResponse
    ELSE Bind(parseRequest(c.req.RequestURI), LAMBDA p :
        IF p.stop THEN p.resp
        ELSE IF ~c.calls[1].ok THEN ErrResponse(E_Call("Info"))
        ELSE Bind(qualify(p.ref, c.registries), LAMBDA q :
            IF ~q.ok THEN ErrResponse(q.err)
            ELSE IF IsNameOnly(q.ref) THEN ErrResponse(E_Call("NewReference"))
            ELSE IF FailedCalls(c) # {}
                 THEN ErrResponse(E_Call(c.calls[Len(c.calls)].op))
            ELSE Bind(reconcile(p.res, p.isByDigest, c.allowed,
                                manifestDigest(c.manifest).digest, config.AutoPull),
                      LAMBDA x : IF x.stop THEN x.resp ELSE AllowResponse)))

\* C17: with several requests in flight, in any interleaving of their
\* handlers, no step changes the configuration of the plugin, and the
\* response of every handler that has returned is the response its request
\* gets when handled alone with the same answers of the collaborators.
C17_Independence ==
    /\ [](\A c \in Handlers : c.pc = "done" => c.resp = Alone(c))
    /\ [][config' = config]_vars

\* two handlers have returned, one allowing a pull by digest, the other
\* answering a pull by tag after the policy evaluation
C17_Witness ==
    /\ Returned /\ resp.Allow /\ isByDigest /\ Called("Digest")
    /\ \E k \in 1..Len(parked) :
          /\ parked[k].pc = "done"
          /\ parked[k].res # NoSubmatch
          /\ ~parked[k].isByDigest
          /\ ~parked[k].resp.Allow
          /\ \E j \in 1..Len(parked[k].calls) : parked[k].calls[j].op = "Digest"


(***************************************************************************)
(* C21: the reference pulled and the reference evaluated                   *)
(***************************************************************************)
\* the repository of the evaluated reference, joined with the manifest digest
EvaluatedAtDigest == ref.name \o <<"@">> \o digest

\* C21 as stated: every ImagePull names the repository of the reference the
\* policy evaluator evaluated, registry host of the qualification included,
\* joined with the manifest digest; every ImageTag has that pulled reference
\* as its source and the same repository with the requested tag as its target.
C21_Original ==
    /\ \A i \in At("ImagePull") : calls[i].args[1] = EvaluatedAtDigest
    /\ \A i \in At("ImageTag") :
          /\ calls[i].args[1] = EvaluatedAtDigest
          /\ calls[i].args[2] = ref.name \o <<":">> \o res4(res)


(***************************************************************************)
(* C22: PutBlob, all or nothing                                            *)
(***************************************************************************)
PutBlobReturned == bpc = "returned"

FailedOp(op) == \E i \in 1..Len(ops) : ops[i].op = op /\ ~ops[i].ok

\* io.Copy went through and copied another number of bytes than the caller expected
SizeMismatch ==
    /\ \E i \in 1..Len(ops) : ops[i].op = "Copy" /\ ops[i].ok
    /\ inputInfo.Size # -1
    /\ size # inputInfo.Size

\* one of the failures the claim lists
ListedFailure ==
    \/ SizeMismatch
    \/ \E op \in {"Copy", "Sync", "Chmod", "blobPath", "MkdirAll", "MkdirAllParent", "Rename"} :
          FailedOp(op)

\* the files this call has left
FilesOfCall == {q \in DOMAIN files : files[q].call = ncalls}

TempFileRemoved == TempName(ncalls) \notin DOMAIN files

NoBlobOfCall == \A q \in FilesOfCall : q.dir # BlobsDir

\* the blob is at the path of the digest of the stream, and is all this call left
BlobInPlace ==
    /\ BlobPathOf(ComputedDigest(stream.data)) \in DOMAIN files
    /\ files[BlobPathOf(ComputedDigest(stream.data))].data = stream.data
    /\ FilesOfCall = {BlobPathOf(ComputedDigest(stream.data))}
    /\ ret.info = [Digest |-> ComputedDigest(stream.data), Size |-> Len(stream.data)]

\* C22 as stated: when PutBlob has returned after a failure of reading the
\* stream, a size other than the known expected one, or a failure of sync,
\* chmod, path computation, directory creation or rename, it has returned an
\* error, the temporary file is removed and no blob of this call is at a
\* digest path; when it has returned without error, exactly the blob of the
\* stream is at the path of its sha256 digest, and the BlobInfo returned
\* carries that digest and the number of bytes copied.
C22_Original ==
    PutBlobReturned =>
        /\ ListedFailure => ret.err # "" /\ TempFileRemoved /\ NoBlobOfCall
        /\ ret.err = "" => BlobInPlace

\* what holds of every return: a listed failure gives an error and no blob
\* of this call, with the temporary file gone unless os.Remove failed; a
\* return without error leaves the blob in place
PutBlob_AllOrNothingButRemove ==
    PutBlobReturned =>
        /\ ListedFailure =>
              /\ ret.err # ""
              /\ ret.info = NoBlobInfo
              /\ NoBlobOfCall
              /\ TempFileRemoved \/ FailedOp("Remove")
        /\ ret.err = "" => BlobInPlace /\ TempFileRemoved

\* PutBlob has returned without error, its blob in place
PutBlob_Succeeded == PutBlobReturned /\ ret.err = "" /\ Len(stream.data) > 0 /\ BlobInPlace

====
